---------------------------- MODULE Spec2Model ----------------------------
(***************************************************************************)
(* Model of the acquisition pipeline of the repository:                    *)
(*   - crash.py: _request_json (retrying request executor), get_count      *)
(*     (count resolver), fetch_all_features (paginated enumerator) and     *)
(*     features_to_df (normalizer);                                        *)
(*   - electric.py: choose_facet_id (facet resolver),                      *)
(*     pick_generation_data_column (column resolver), main, and the merge  *)
(*     by period of the dashboard script.                                  *)
(* Spec is the state machine of the calls of fetch_all_features against a  *)
(* nondeterministic service and SpecMain that of one run of main;          *)
(* SpecFacet, SpecPick, SpecMerge and SpecDf apply choose_facet_id,        *)
(* pick_generation_data_column, the merge and features_to_df to bounded    *)
(* inputs.                                                                 *)
(***************************************************************************)
EXTENDS Integers, Sequences, FiniteSets, TLC

(***************************************************************************)
(* Program constants.                                                      *)
(***************************************************************************)
\* crash.py:30  MAX_RECORD_COUNT = 2000
MAX_RECORD_COUNT == 2000
\* crash.py:53  the ceiling of the backoff, min(2 ** attempt, 20)
BACKOFF_CAP == 20
\* crash.py:39  retries: int = 5
DEFAULT_RETRIES == 5

(***************************************************************************)
(* Bounds of the model.                                                    *)
(***************************************************************************)
\* the retries argument of _request_json ranges over 1..MaxRetries
MaxRetries == 6
\* the service reports totals of up to MaxPages full pages, plus or minus one
MaxPages == 2
\* fetch_all_features is called at most MaxCalls times in a row
MaxCalls == 2
\* choose_facet_id is given at most MaxCandidates candidates
MaxCandidates == 2
\* and preference lists of at most MaxPrefs entries each
MaxPrefs == 2
\* each series given to the merge has at most MaxRows rows
MaxRows == 2
\* features_to_df is given at most MaxItems raw items
MaxItems == 2
\* the metadata lists at most MaxKeys data fields
MaxKeys == 2

VARIABLES
    where,      \* the filter of this enumeration (argument of fetch_all_features)
    retries,    \* the retries argument of _request_json
    calls,      \* number of calls of fetch_all_features so far
    pc,         \* position of fetch_all_features: idle, count, page, done, raised
    reqs,       \* the logical requests (calls of _request_json) the call of
                \* fetch_all_features in progress has issued, their params
    attempt,    \* loop variable of _request_json for the request in progress
    last_err,   \* last_err of _request_json
    kinds,      \* the kinds of failure the request in progress met so far
    sleeps,     \* the time.sleep calls of the request in progress, in order
    gets,       \* number of session.get calls of the request in progress
    wire,       \* what the service answered to the latest session.get
    count_data, \* get_count: data, what _request_json returned to it
    total,      \* fetch_all_features: total (Unknown before get_count returned)
    page_idx,   \* fetch_all_features: page_idx
    data,       \* fetch_all_features: data, what _request_json returned to it
    features,   \* fetch_all_features: features, as the chunks the pages delivered
    result,     \* the value fetch_all_features returned
    raised,     \* the exception that left fetch_all_features
    facet_values,           \* choose_facet_id: the candidates
    prefer_ids,             \* choose_facet_id: the exact preferences
    prefer_name_contains,   \* choose_facet_id: the substring preferences
    fpc,                    \* position of the caller of choose_facet_id
    chosen,                 \* the value choose_facet_id returned
    retail_rows,            \* dashboard script: retail.rows
    gen_rows,               \* dashboard script: gen.rows
    merged,                 \* dashboard script: merged
    mpc,                    \* position of the dashboard script
    df_features,            \* features_to_df: its argument features
    raw_after,              \* the raw items as they are when features_to_df is done
    df_rows,                \* features_to_df: rows
    columns,                \* features_to_df: df.columns
    crash_date,             \* features_to_df: df["crash_date"], if that column exists
    dfpc,                   \* position of the caller of features_to_df
    meta_keys,              \* pick_generation_data_column: keys
    picked,                 \* the value pick_generation_data_column returned
    ppc,                    \* position of the caller of pick_generation_data_column
    main_pc,                \* position of main of electric.py
    retail_res,             \* main: retail.rows
    gen_col,                \* main: gen_col
    loc_vals,               \* main: loc_vals
    sec_vals,               \* main: sec_vals
    fuel_vals,              \* main: fuel_vals
    gen_reqs,               \* the generation data requests main issued, their params
    gen_res,                \* main: gen_res.rows
    generation_rows,        \* main: generation_rows
    gen_units,              \* main: gen_units
    failure,                \* the exception main met, and where
    site                    \* what build_dashboard wrote

fetchVars == <<where, retries, calls, pc, reqs, attempt, last_err, kinds, sleeps, gets,
               wire, count_data, total, page_idx, data, features, result, raised>>

facetVars == <<facet_values, prefer_ids, prefer_name_contains, fpc, chosen>>

mergeVars == <<retail_rows, gen_rows, merged, mpc>>

dfVars == <<df_features, raw_after, df_rows, columns, crash_date, dfpc>>

pickVars == <<meta_keys, picked, ppc>>

mainVars == <<main_pc, retail_res, gen_col, loc_vals, sec_vals, fuel_vals, gen_reqs,
              gen_res, generation_rows, gen_units, failure, site>>

vars == <<fetchVars, facetVars, mergeVars, dfVars, pickVars, mainVars>>

\* what the steps of crash.py leave alone, and what those of electric.py do
notFetchVars == <<facetVars, mergeVars, dfVars, pickVars, mainVars>>
notFacetVars == <<fetchVars, mergeVars, dfVars, pickVars, mainVars>>
notMergeVars == <<fetchVars, facetVars, dfVars, pickVars, mainVars>>
notDfVars == <<fetchVars, facetVars, mergeVars, pickVars, mainVars>>
notPickVars == <<fetchVars, facetVars, mergeVars, dfVars, mainVars>>
notMainVars == <<fetchVars, facetVars, mergeVars, dfVars, pickVars>>

(***************************************************************************)
(* Values.                                                                 *)
(***************************************************************************)
Unknown == 0 - 1
NoValue == [nothing |-> TRUE]
NoErr == [kind |-> "none", at |-> 0 - 1, info |-> 0]
NoData == [none |-> TRUE]
NoWire == [status |-> "none", body |-> <<>>]

Min(a, b) == IF a <= b THEN a ELSE b

\* dict.get(key, default) on a JSON object modelled as a record
Get(d, key, default) == IF key \in DOMAIN d THEN d[key] ELSE default

\* The filters a caller may pass (FetchSpec rendered by _where_clause).
Wheres == {"STATE = 4 AND YEAR = 2022", "STATE = 6 AND YEAR = 2022"}

\* The totals the service may report: around every page boundary.
Totals == {k * MAX_RECORD_COUNT + d : k \in 0..MaxPages, d \in {0 - 1, 0, 1}} \cap Nat

\* Ways one session.get can fail before a JSON object is in hand:
\* the get raises, raise_for_status raises, r.json() raises.
TransportKinds == {"timeout", "http_status", "bad_json"}

\* JSON objects the service may answer a count query with.
CountBodies == {[count |-> c] : c \in Totals} \cup {<<>>}

\* JSON objects carrying a service-reported error.
ErrorBodies == {[error |-> 400]}

\* number of rows a full delivery of the page at offset would hold
Expected(tot, offset) == Min(MAX_RECORD_COUNT, tot - offset)

\* JSON objects the service may answer a page query with: the rows are
\* modelled by their number.  The page may be full, short, empty, or lack the
\* features field.
PageBodies(tot, offset) ==
    {[features |-> n] : n \in {0, Expected(tot, offset), MAX_RECORD_COUNT}} \cup {<<>>}

(***************************************************************************)
(* crash.py: the pure parts.                                               *)
(***************************************************************************)
\* the loop stops one pass early
InLoopShort(n, r) == n < r - 1
\* the loop runs one pass more
InLoopLong(n, r) == n <= r
\* crash.py:41  for attempt in range(retries): whether pass n of r is run
InLoop(n, r) == n < r

\* the backoff without its ceiling
BackoffNoCap(n) == 2 ^ n
\* crash.py:53  sleep_s = min(2 ** attempt, 20)
Backoff(n) == Min(2 ^ n, BACKOFF_CAP)

\* crash.py:43-49  what one pass of the try block does with the service's
\* answer: "return" the data, or raise an exception of some kind.
TryBody(w) ==
    IF w.status /= "ok" THEN [tag |-> "except", kind |-> w.status, info |-> 0]
    ELSE IF "error" \in DOMAIN w.body
         THEN [tag |-> "except", kind |-> "service", info |-> w.body.error]
    ELSE [tag |-> "return", kind |-> "none", info |-> 0]

\* the empty total is not recognised
EmptyTotalNever(tot) == tot < 0
\* crash.py:76  if total == 0
EmptyTotal(tot) == tot = 0

\* the page count rounded down
PagesFloor(tot) == tot \div MAX_RECORD_COUNT
\* crash.py:80  pages = math.ceil(total / MAX_RECORD_COUNT)
Pages(tot) == (tot + MAX_RECORD_COUNT - 1) \div MAX_RECORD_COUNT

\* crash.py:64-68  params of get_count
CountParams(w) ==
    [f |-> "json", where |-> w, returnCountOnly |-> "true"]

\* the page request without its ordering key
PageParamsUnordered(w, offset) ==
    [f |-> "json", where |-> w, outFields |-> "*", returnGeometry |-> "true",
     outSR |-> "4326", resultRecordCount |-> MAX_RECORD_COUNT,
     resultOffset |-> offset]
\* crash.py:84-93  params of one page request
PageParams(w, offset) ==
    [f |-> "json", where |-> w, outFields |-> "*", returnGeometry |-> "true",
     outSR |-> "4326", resultRecordCount |-> MAX_RECORD_COUNT,
     resultOffset |-> offset, orderByFields |-> "OBJECTID"]

\* a missing count read as one
CountOfDefaultOne(d) == Get(d, "count", 1)
\* crash.py:70  count = int(data.get("count", 0))
CountOf(d) == Get(d, "count", 0)

\* crash.py:95  page_features = data.get("features", [])
PageFeatures(d) == Get(d, "features", 0)

(***************************************************************************)
(* crash.py: the state machine of fetch_all_features.                      *)
(***************************************************************************)
InitFetch ==
    /\ where \in Wheres
    /\ retries \in 1..MaxRetries
    /\ calls = 0
    /\ pc = "idle"
    /\ reqs = <<>>
    /\ attempt = 0
    /\ last_err = NoErr
    /\ kinds = {}
    /\ sleeps = <<>>
    /\ gets = 0
    /\ wire = NoWire
    /\ count_data = NoData
    /\ total = Unknown
    /\ page_idx = 0
    /\ data = NoData
    /\ features = <<>>
    /\ result = NoValue
    /\ raised = NoErr

\* _request_json is entered with params p: line 40.
Enter(p) ==
    /\ reqs' = Append(reqs, p)
    /\ attempt' = 0
    /\ last_err' = NoErr
    /\ kinds' = {}
    /\ sleeps' = <<>>
    /\ gets' = 0

\* fetch_all_features is called: get_count builds its params and calls
\* _request_json (lines 75, 64-69).
Call ==
    /\ pc = "idle"
    /\ pc' = "count"
    /\ calls' = 1
    /\ Enter(CountParams(where))
    /\ UNCHANGED <<where, retries, wire, count_data, total, page_idx, data,
                   features, result, raised>>
    /\ UNCHANGED notFetchVars

\* what a new call of fetch_all_features starts from: its locals are new
NewCall ==
    /\ pc \in {"done", "raised"}
    /\ calls < MaxCalls
    /\ calls' = calls + 1
    /\ attempt' = 0 /\ last_err' = NoErr /\ kinds' = {} /\ sleeps' = <<>> /\ gets' = 0
    /\ wire' = NoWire /\ count_data' = NoData /\ data' = NoData
    /\ page_idx' = 0 /\ features' = <<>> /\ result' = NoValue /\ raised' = NoErr
    /\ UNCHANGED <<where, retries>>
    /\ UNCHANGED notFetchVars

\* a later call that keeps the total of the call before it
CallAgainCached ==
    /\ NewCall
    /\ IF total = Unknown
       THEN pc' = "count" /\ reqs' = <<CountParams(where)>> /\ UNCHANGED total
       ELSE pc' = "page" /\ reqs' = <<PageParams(where, 0)>> /\ UNCHANGED total
\* fetch_all_features is called again, with the same filter, after a call
\* that returned or raised: lines 75, 64-69 once more.
CallAgain ==
    /\ NewCall
    /\ pc' = "count"
    /\ total' = Unknown
    /\ reqs' = <<CountParams(where)>>

\* The service's possible answers to the request in progress.
Answers ==
    [status : TransportKinds, body : {<<>>}]
        \cup [status : {"ok"}, body : ErrorBodies]
        \cup [status : {"ok"},
              body : IF pc = "count" THEN CountBodies
                     ELSE PageBodies(total, page_idx * MAX_RECORD_COUNT)]

\* the last pass of the loop does not sleep
AttemptFailsNoFinalSleep ==
    /\ pc \in {"count", "page"}
    /\ InLoop(attempt, retries)
    /\ \E w \in Answers :
        /\ TryBody(w).tag = "except"
        /\ wire' = w
        /\ gets' = gets + 1
        /\ last_err' = [kind |-> TryBody(w).kind, at |-> attempt,
                        info |-> TryBody(w).info]
        /\ kinds' = kinds \cup {TryBody(w).kind}
        /\ sleeps' = IF InLoop(attempt + 1, retries)
                     THEN Append(sleeps, Backoff(attempt)) ELSE sleeps
        /\ attempt' = attempt + 1
    /\ UNCHANGED <<where, retries, calls, pc, reqs, count_data, total, page_idx, data,
                   features, result, raised>>
    /\ UNCHANGED notFetchVars

\* One pass of the retry loop that ends in the except clause (lines 41-54).
AttemptFails ==
    /\ pc \in {"count", "page"}
    /\ InLoop(attempt, retries)
    /\ \E w \in Answers :
        /\ TryBody(w).tag = "except"
        /\ wire' = w
        /\ gets' = gets + 1
        /\ last_err' = [kind |-> TryBody(w).kind, at |-> attempt,
                        info |-> TryBody(w).info]
        /\ kinds' = kinds \cup {TryBody(w).kind}
        /\ sleeps' = Append(sleeps, Backoff(attempt))
        /\ attempt' = attempt + 1
    /\ UNCHANGED <<where, retries, calls, pc, reqs, count_data, total, page_idx, data,
                   features, result, raised>>
    /\ UNCHANGED notFetchVars

\* the failure swallowed, the rows fetched so far returned
ExhaustedSalvage ==
    /\ pc \in {"count", "page"}
    /\ ~InLoop(attempt, retries)
    /\ pc' = "done"
    /\ result' = features
    /\ UNCHANGED <<where, retries, calls, reqs, attempt, last_err, kinds, sleeps,
                   gets, wire, count_data, total, page_idx, data, features, raised>>
    /\ UNCHANGED notFetchVars

\* The retry loop ran out of attempts: line 55.  fetch_all_features has no
\* handler, so the exception leaves it.
Exhausted ==
    /\ pc \in {"count", "page"}
    /\ ~InLoop(attempt, retries)
    /\ pc' = "raised"
    /\ raised' = [kind |-> "RuntimeError", cause |-> last_err, after |-> retries]
    /\ UNCHANGED <<where, retries, calls, reqs, attempt, last_err, kinds, sleeps, gets,
                   wire, count_data, total, page_idx, data, features, result>>
    /\ UNCHANGED notFetchVars

\* The count query returns (line 49, then 70-71 and 75-80): either the
\* enumeration returns [] or the first page request is issued.
CountReturns ==
    /\ pc = "count"
    /\ InLoop(attempt, retries)
    /\ \E w \in Answers :
        /\ TryBody(w).tag = "return"
        /\ wire' = w
        /\ count_data' = w.body
        /\ total' = CountOf(w.body)
        /\ IF EmptyTotal(CountOf(w.body))
           THEN /\ pc' = "done"
                /\ result' = <<>>
                /\ gets' = gets + 1
                /\ UNCHANGED <<reqs, attempt, last_err, kinds, sleeps>>
           ELSE /\ pc' = "page"
                /\ Enter(PageParams(where, 0))
                /\ UNCHANGED result
    /\ UNCHANGED <<where, retries, calls, page_idx, data, features, raised>>
    /\ UNCHANGED notFetchVars

\* the enumeration stopped by the first page that is not full
PageReturnsStopOnShort ==
    /\ pc = "page"
    /\ InLoop(attempt, retries)
    /\ \E w \in Answers :
        /\ TryBody(w).tag = "return"
        /\ wire' = w
        /\ data' = w.body
        /\ features' = Append(features,
                              [offset |-> page_idx * MAX_RECORD_COUNT,
                               n |-> PageFeatures(w.body)])
        /\ IF page_idx + 1 < Pages(total) /\ PageFeatures(w.body) >= MAX_RECORD_COUNT
           THEN /\ page_idx' = page_idx + 1
                /\ Enter(PageParams(where, (page_idx + 1) * MAX_RECORD_COUNT))
                /\ UNCHANGED <<pc, result>>
           ELSE /\ pc' = "done"
                /\ result' = features'
                /\ gets' = gets + 1
                /\ UNCHANGED <<page_idx, reqs, attempt, last_err, kinds, sleeps>>
    /\ UNCHANGED <<where, retries, calls, count_data, total, raised>>
    /\ UNCHANGED notFetchVars

\* A page query returns (line 49, then 95-97): the rows are appended and
\* either the next page request is issued or the enumeration returns.
PageReturns ==
    /\ pc = "page"
    /\ InLoop(attempt, retries)
    /\ \E w \in Answers :
        /\ TryBody(w).tag = "return"
        /\ wire' = w
        /\ data' = w.body
        /\ features' = Append(features,
                              [offset |-> page_idx * MAX_RECORD_COUNT,
                               n |-> PageFeatures(w.body)])
        /\ IF page_idx + 1 < Pages(total)
           THEN /\ page_idx' = page_idx + 1
                /\ Enter(PageParams(where, (page_idx + 1) * MAX_RECORD_COUNT))
                /\ UNCHANGED <<pc, result>>
           ELSE /\ pc' = "done"
                /\ result' = features'
                /\ gets' = gets + 1
                /\ UNCHANGED <<page_idx, reqs, attempt, last_err, kinds, sleeps>>
    /\ UNCHANGED <<where, retries, calls, count_data, total, raised>>
    /\ UNCHANGED notFetchVars

(***************************************************************************)
(* electric.py: strings.  A string is a sequence of characters; None is a  *)
(* value apart from every string.                                          *)
(***************************************************************************)
None == <<"<None>">>

\* str.upper and str.lower, character by character
UpperChar(c) ==
    CASE c = "a" -> "A" [] c = "b" -> "B" [] c = "e" -> "E" [] c = "g" -> "G"
      [] c = "i" -> "I" [] c = "l" -> "L" [] c = "n" -> "N" [] c = "o" -> "O"
      [] c = "r" -> "R" [] c = "s" -> "S" [] c = "t" -> "T" [] c = "u" -> "U"
      [] c = "v" -> "V" [] c = "z" -> "Z" [] OTHER -> c
LowerChar(c) ==
    CASE c = "A" -> "a" [] c = "B" -> "b" [] c = "E" -> "e" [] c = "G" -> "g"
      [] c = "I" -> "i" [] c = "L" -> "l" [] c = "N" -> "n" [] c = "O" -> "o"
      [] c = "R" -> "r" [] c = "S" -> "s" [] c = "T" -> "t" [] c = "U" -> "u"
      [] c = "V" -> "v" [] c = "Z" -> "z" [] OTHER -> c
Upper(s) == [i \in 1..Len(s) |-> UpperChar(s[i])]
Lower(s) == [i \in 1..Len(s) |-> LowerChar(s[i])]

\* the characters [a-z0-9] of the strings of the model
IsAlnumLower(c) ==
    c \in {"a", "b", "e", "g", "i", "l", "n", "o", "r", "s", "t", "u", "v", "z"}

\* lines 110-111: normalize_key, re.sub(r"[^a-z0-9]+", "", s.lower())
normalize_key(s) == SelectSeq(Lower(s), IsAlnumLower)

\* str(x or "")
StrOrEmpty(x) == IF x = None THEN <<>> ELSE x

\* " ".join([a, b, c])
Join3(a, b, c) == a \o <<" ">> \o b \o <<" ">> \o c

\* n in s, for strings
Contains(n, s) ==
    \E i \in 0..(Len(s) - Len(n)) : SubSeq(s, i + 1, i + Len(n)) = n

\* the sequences over S of length at most n
SeqsUpTo(S, n) == UNION {[1..k -> S] : k \in 0..n}

(***************************************************************************)
(* electric.py: choose_facet_id (lines 155-183).                           *)
(***************************************************************************)
\* line 171: fid = str(f.get("id") or "").upper()
Fid(f) == Upper(StrOrEmpty(f.id))

\* lines 177-179: the text the needles are looked for in
Blob(f) == Lower(Join3(StrOrEmpty(f.id), StrOrEmpty(f.name), StrOrEmpty(f.alias)))

\* lines 169-173: the exact pass, the index of the candidate it returns (0: none)
ExactPass(fv, pids) ==
    LET prefer_ids_u == {Upper(pids[j]) : j \in 1..Len(pids)}
        hits == {i \in 1..Len(fv) : Fid(fv[i]) \in prefer_ids_u}
    IN  IF hits = {} THEN 0 ELSE CHOOSE i \in hits : \A k \in hits : i <= k

\* lines 175-181: the substring pass, the index of the candidate it returns (0: none)
SubstringPass(fv, pnc) ==
    LET needles == {Lower(pnc[j]) : j \in 1..Len(pnc)}
        hits == {i \in 1..Len(fv) : \E n \in needles : Contains(n, Blob(fv[i]))}
    IN  IF hits = {} THEN 0 ELSE CHOOSE i \in hits : \A k \in hits : i <= k

\* the substring pass run ahead of the exact pass
choose_facet_id_SubstringFirst(fv, pids, pnc) ==
    IF fv = <<>> THEN None
    ELSE IF SubstringPass(fv, pnc) /= 0 THEN fv[SubstringPass(fv, pnc)].id
    ELSE IF ExactPass(fv, pids) /= 0 THEN fv[ExactPass(fv, pids)].id
    ELSE None

\* lines 166-183
choose_facet_id(fv, pids, pnc) ==
    IF fv = <<>> THEN None
    ELSE IF ExactPass(fv, pids) /= 0 THEN fv[ExactPass(fv, pids)].id
    ELSE IF SubstringPass(fv, pnc) /= 0 THEN fv[SubstringPass(fv, pnc)].id
    ELSE None

(***************************************************************************)
(* Inputs of choose_facet_id.                                              *)
(***************************************************************************)
\* the identifiers the service lists; a candidate may lack its id
IdWords == {<<"a">>, <<"b">>, <<"A", "_", "b">>, None}
\* a facet value as the service lists it: its id, name and alias
Candidates == [id : IdWords, name : {None, <<"b">>}, alias : {None, <<"a">>}]
\* the entries of the exact-preference lists
ExactWords == {<<"A">>, <<"B">>, <<"a", "-", "B">>}
\* the entries of the substring-preference lists
NeedleWords == {<<"B">>, <<"a", " ">>}

InitFacet ==
    /\ facet_values \in SeqsUpTo(Candidates, MaxCandidates)
    /\ prefer_ids \in SeqsUpTo(ExactWords, MaxPrefs)
    /\ prefer_name_contains \in SeqsUpTo(NeedleWords, MaxPrefs)
    /\ fpc = "ready"
    /\ chosen = None

\* the caller calls choose_facet_id and keeps what it returns
Resolve ==
    /\ fpc = "ready"
    /\ chosen' = choose_facet_id(facet_values, prefer_ids, prefer_name_contains)
    /\ fpc' = "resolved"
    /\ UNCHANGED <<facet_values, prefer_ids, prefer_name_contains>>
    /\ UNCHANGED notFacetVars

(***************************************************************************)
(* electric.py: the merge by period of the dashboard script (lines         *)
(* 540-559).  A row is a record; a field the row lacks reads JsUndefined.  *)
(* A period is a string, here a sequence of digits.                        *)
(***************************************************************************)
JsNull == 0 - 1
JsUndefined == 0 - 2

\* x ?? null
Nullish(x) == IF x = JsUndefined \/ x = JsNull THEN JsNull ELSE x

\* a Map keeps its entries in insertion order: a sequence of rows of distinct
\* periods.  The place of key k in m, 0 when m has no such key.
MapIndex(m, k) ==
    IF \E i \in 1..Len(m) : m[i].period = k
    THEN CHOOSE i \in 1..Len(m) : m[i].period = k
    ELSE 0

\* byPeriod.set(k, row)
MapSet(m, k, row) ==
    IF MapIndex(m, k) = 0 THEN Append(m, row)
    ELSE [m EXCEPT ![MapIndex(m, k)] = row]

\* lines 543-549: the entry made of a retail row
RetailEntry(r) ==
    [period |-> r.period, sales |-> Nullish(r.sales), revenue |-> Nullish(r.revenue),
     price |-> Nullish(r.price), generation |-> JsNull]

\* a new entry that leaves out the fields it has no value for
FreshEntrySparse(p) ==
    [period |-> p, sales |-> JsUndefined, revenue |-> JsUndefined,
     price |-> JsUndefined, generation |-> JsUndefined]
\* line 553: the entry made for a period no retail row has
FreshEntry(p) ==
    [period |-> p, sales |-> JsNull, revenue |-> JsNull, price |-> JsNull,
     generation |-> JsNull]

\* lines 542-550
RECURSIVE RetailLoop(_, _)
RetailLoop(m, rows) ==
    IF rows = <<>> THEN m
    ELSE RetailLoop(MapSet(m, Head(rows).period, RetailEntry(Head(rows))), Tail(rows))

\* the generation row replaces the entry of its period
GenStepReplace(m, g) ==
    MapSet(m, g.period,
           [FreshEntry(g.period) EXCEPT !.generation = Nullish(g.generation)])
\* lines 552-555: one pass of the loop over gen.rows
GenStep(m, g) ==
    LET cur == IF MapIndex(m, g.period) /= 0 THEN m[MapIndex(m, g.period)]
               ELSE FreshEntry(g.period)
    IN  MapSet(m, g.period, [cur EXCEPT !.generation = Nullish(g.generation)])

\* lines 551-556
RECURSIVE GenLoop(_, _)
GenLoop(m, rows) ==
    IF rows = <<>> THEN m ELSE GenLoop(GenStep(m, Head(rows)), Tail(rows))

\* the order of two strings that Array.prototype.sort uses by default
LexLess(a, b) ==
    \E i \in 1..(Len(b)) :
        /\ \A k \in 1..(i - 1) : k <= Len(a) /\ a[k] = b[k]
        /\ (i = Len(a) + 1 \/ (i <= Len(a) /\ a[i] < b[i]))

\* s without its i-th element
Without(s, i) == SubSeq(s, 1, i - 1) \o SubSeq(s, i + 1, Len(s))

\* the keys left in insertion order
SortKeysNone(ks) == ks
\* line 558: Array.from(byPeriod.keys()).sort()
RECURSIVE SortKeysFrom(_)
SortKeysFrom(ks) ==
    IF ks = <<>> THEN <<>>
    ELSE LET i == CHOOSE i \in 1..Len(ks) : \A j \in 1..Len(ks) : ~LexLess(ks[j], ks[i])
         IN  <<ks[i]>> \o SortKeysFrom(Without(ks, i))
SortKeys(ks) == SortKeysFrom(ks)

\* lines 541-559
MergeByPeriod(retail, gen) ==
    LET byPeriod == GenLoop(RetailLoop(<<>>, retail), gen)
        periods == SortKeys([i \in 1..Len(byPeriod) |-> byPeriod[i].period])
    IN  [i \in 1..Len(periods) |-> byPeriod[MapIndex(byPeriod, periods[i])]]

\* the periods of the rows
Periods == {<<1>>, <<1, 0>>, <<2>>}
\* the sales, revenue and price a retail row may carry
RetailFields ==
    {[sales |-> 100, revenue |-> 7, price |-> 3],
     [sales |-> 200, revenue |-> 8, price |-> 4],
     [sales |-> 100, revenue |-> JsUndefined, price |-> JsNull],
     [sales |-> JsUndefined, revenue |-> JsNull, price |-> JsUndefined]}
RetailRows ==
    {[period |-> p, sales |-> f.sales, revenue |-> f.revenue, price |-> f.price] :
        p \in Periods, f \in RetailFields}
GenRows == [period : Periods, generation : {50, JsNull, JsUndefined}]

InitMerge ==
    /\ retail_rows \in SeqsUpTo(RetailRows, MaxRows)
    /\ gen_rows \in SeqsUpTo(GenRows, MaxRows)
    /\ merged = <<>>
    /\ mpc = "ready"

\* the script merges the two series
Merge ==
    /\ mpc = "ready"
    /\ merged' = MergeByPeriod(retail_rows, gen_rows)
    /\ mpc' = "merged"
    /\ UNCHANGED <<retail_rows, gen_rows>>
    /\ UNCHANGED notMergeVars

(***************************************************************************)
(* crash.py: features_to_df.  A mapping (dict) is a function on its keys;  *)
(* None is the mapping DictNone; a number that is missing in the frame is  *)
(* NaN and a date that is missing is NaT.                                  *)
(***************************************************************************)
DictNone == [none |-> TRUE]
EmptyDict == [k \in {} |-> 0]
NaN == 0 - 1
NaT == 0 - 2
\* the value of crash_date while the frame has no such column
NoColumn == <<>>

\* d.get(k)
GetD(d, k) == IF k \in DOMAIN d THEN d[k] ELSE DictNone
\* x or {}
OrEmpty(x) == IF x = DictNone \/ x = EmptyDict THEN EmptyDict ELSE x
\* d[k] = v
SetItem(d, k, v) == [j \in DOMAIN d \cup {k} |-> IF j = k THEN v ELSE d[j]]

\* the row built without the geometry
BuildRowNoGeometry(f) == OrEmpty(GetD(f, "attributes"))
\* crash.py:106-112  the row appended for the raw item f
BuildRow(f) ==
    LET attrs == OrEmpty(GetD(f, "attributes"))
        geom == OrEmpty(GetD(f, "geometry"))
    IN  IF "x" \in DOMAIN geom /\ "y" \in DOMAIN geom
        THEN SetItem(SetItem(attrs, "lon", geom["x"]), "lat", geom["y"])
        ELSE attrs

\* crash.py:106  attrs = dict(...): attrs is a new mapping, so the writes of
\* lines 110-111 reach no part of the raw item f
ItemAfter(f) == f

\* crash.py:114  pd.DataFrame(rows): the columns are the keys of the rows
ColumnsOf(rs) == UNION {DOMAIN rs[i] : i \in 1..Len(rs)}
\* and the cell of a row without the key is NaN
Cell(rs, i, c) == IF c \in DOMAIN rs[i] THEN rs[i][c] ELSE NaN

\* the dates of the civil calendar
IsLeap(y) == (y % 4 = 0 /\ y % 100 # 0) \/ y % 400 = 0
DaysIn(y, m) ==
    IF m = 2 THEN (IF IsLeap(y) THEN 29 ELSE 28)
    ELSE IF m \in {4, 6, 9, 11} THEN 30 ELSE 31
ValidDate(y, m, d) == y >= 1 /\ m \in 1..12 /\ d >= 1 /\ d <= DaysIn(y, m)

\* crash.py:121-124  pd.to_datetime(dict(year=, month=, day=),
\* errors="coerce") for one row: the three numbers are assembled as
\* year * 10000 + month * 100 + day and the digits of the sum are read as
\* %Y%m%d; what cannot be read is NaT.  A date is the number yyyymmdd.
to_datetime(y, m, d) ==
    IF y = NaN \/ m = NaN \/ d = NaN THEN NaT
    ELSE LET v == y * 10000 + m * 100 + d
             yy == v \div 10000
             mm == (v \div 100) % 100
             dd == v % 100
         IN  IF v >= 10000000 /\ v <= 99999999 /\ ValidDate(yy, mm, dd)
             THEN v ELSE NaT

\* crash.py:117-120  the for/else over ("YEAR", "MONTH", "DAY"): whether
\* the else branch is run
HasDateColumns(rs) == {"YEAR", "MONTH", "DAY"} \subseteq ColumnsOf(rs)
\* crash.py:121-124  df["crash_date"]
DateColumn(rs) ==
    IF HasDateColumns(rs)
    THEN [i \in 1..Len(rs) |->
            to_datetime(Cell(rs, i, "YEAR"), Cell(rs, i, "MONTH"),
                        Cell(rs, i, "DAY"))]
    ELSE NoColumn

\* The raw items the service may deliver.
XY == [x |-> 7, y |-> 8]
DateAttrs ==
    {[YEAR |-> 2020, MONTH |-> 2, DAY |-> 29],
     [YEAR |-> 2021, MONTH |-> 2, DAY |-> 29],
     [YEAR |-> 2020, MONTH |-> 13, DAY |-> 1],
     [YEAR |-> 2020, MONTH |-> 4, DAY |-> 31],
     [YEAR |-> 2020, MONTH |-> 1, DAY |-> 101],
     [YEAR |-> 2020, MONTH |-> 12, DAY |-> 25, CITY |-> 1]}
AttrPool ==
    DateAttrs \cup {DictNone, [CITY |-> 1], [CITY |-> 1, lon |-> 5],
                    [YEAR |-> 2020, MONTH |-> 2]}
Items ==
    [attributes : AttrPool, geometry : {DictNone, XY}]
        \cup {[attributes |-> [CITY |-> 1], geometry |-> [x |-> 7]],
              [attributes |-> [CITY |-> 1]],
              [geometry |-> XY]}

InitDf ==
    /\ df_features \in SeqsUpTo(Items, MaxItems)
    /\ raw_after = df_features
    /\ df_rows = <<>>
    /\ columns = {}
    /\ crash_date = NoColumn
    /\ dfpc = "start"

\* features_to_df(features) runs: lines 103-126.
ToDf ==
    /\ dfpc = "start"
    /\ dfpc' = "returned"
    /\ df_rows' = [i \in 1..Len(df_features) |-> BuildRow(df_features[i])]
    /\ raw_after' = [i \in 1..Len(df_features) |-> ItemAfter(df_features[i])]
    /\ columns' = ColumnsOf(df_rows')
                    \cup (IF HasDateColumns(df_rows') THEN {"crash_date"} ELSE {})
    /\ crash_date' = DateColumn(df_rows')
    /\ UNCHANGED df_features
    /\ UNCHANGED notDfVars

(***************************************************************************)
(* electric.py: pick_generation_data_column (lines 114-152).               *)
(***************************************************************************)
\* lines 124-131: preferred
preferred ==
    <<<<"n", "e", "t", "-", "g", "e", "n", "e", "r", "a", "t", "i", "o", "n">>,
      <<"n", "e", "t", "_", "g", "e", "n", "e", "r", "a", "t", "i", "o", "n">>,
      <<"n", "e", "t", "g", "e", "n", "e", "r", "a", "t", "i", "o", "n">>,
      <<"g", "e", "n", "e", "r", "a", "t", "i", "o", "n">>,
      <<"g", "e", "n">>,
      <<"v", "a", "l", "u", "e">>>>
\* line 133: pref_norm
pref_norm == [j \in 1..Len(preferred) |-> normalize_key(preferred[j])]

\* lines 120-121: the column returned when the metadata lists no data field
DefaultColumn == <<"v", "a", "l", "u", "e">>
\* line 148: the text looked for in the last pass
GenText == <<"g", "e", "n">>

\* the key returned by the loops "for pn in pref_norm: for k, nk in
\* norm_map.items()": of the pairs <<j, i>> of a preference j and a key i
\* that pass the test, the first key of the first preference (0: none)
FirstByPreference(hits) ==
    IF hits = {} THEN 0
    ELSE LET j == CHOOSE x \in {h[1] : h \in hits} :
                      \A h \in hits : x <= h[1]
             is == {h[2] : h \in {g \in hits : g[1] = j}}
         IN  CHOOSE x \in is : \A y \in is : x <= y

\* lines 135-139: exact normalized matches, the index of the key returned
PickExact(keys) ==
    FirstByPreference(
        {h \in (1..Len(pref_norm)) \X (1..Len(keys)) :
            normalize_key(keys[h[2]]) = pref_norm[h[1]]})

\* lines 141-145: substring matches
PickSubstring(keys) ==
    FirstByPreference(
        {h \in (1..Len(pref_norm)) \X (1..Len(keys)) :
            /\ pref_norm[h[1]] # <<>>
            /\ Contains(pref_norm[h[1]], normalize_key(keys[h[2]]))})

\* lines 147-150: any key containing "gen"
PickGen(keys) ==
    LET is == {i \in 1..Len(keys) : Contains(GenText, normalize_key(keys[i]))}
    IN  IF is = {} THEN 0 ELSE CHOOSE x \in is : \A y \in is : x <= y

\* lines 118-152, from the keys of the metadata's data object
pick_generation_data_column(keys) ==
    IF keys = <<>> THEN DefaultColumn
    ELSE IF PickExact(keys) # 0 THEN keys[PickExact(keys)]
    ELSE IF PickSubstring(keys) # 0 THEN keys[PickSubstring(keys)]
    ELSE IF PickGen(keys) # 0 THEN keys[PickGen(keys)]
    ELSE keys[1]

\* The names of data fields the metadata may list.
KeyWords ==
    {<<"g", "e", "n">>,
     <<"g", "e", "n", "e", "r", "a", "t", "i", "o", "n">>,
     <<"n", "e", "t", "-", "g", "e", "n", "e", "r", "a", "t", "i", "o", "n">>,
     <<"N", "e", "t", "_", "G", "e", "n", "e", "r", "a", "t", "i", "o", "n">>,
     <<"v", "a", "l", "u", "e">>,
     <<"t", "o", "t", "a", "l">>,
     <<"n", "g", "e", "n">>,
     <<"a">>}
\* the keys of a mapping, in its order: no key twice
KeyLists ==
    {ks \in SeqsUpTo(KeyWords, MaxKeys) :
        \A i, j \in 1..Len(ks) : i # j => ks[i] # ks[j]}

InitPick ==
    /\ meta_keys \in KeyLists
    /\ picked = None
    /\ ppc = "ready"

\* main calls pick_generation_data_column and keeps what it returns (line 775)
Pick ==
    /\ ppc = "ready"
    /\ ppc' = "picked"
    /\ picked' = pick_generation_data_column(meta_keys)
    /\ UNCHANGED meta_keys
    /\ UNCHANGED notPickVars

(***************************************************************************)
(* electric.py: main (lines 749-889).  Every call of the service either    *)
(* returns or raises.                                                      *)
(***************************************************************************)
NoFailure == [stage |-> "none"]
NotWritten == [written |-> FALSE]

\* not x, for a string or None
Falsy(x) == x = None \/ x = <<>>
\* str(x)
Str(x) == IF x = None THEN <<"N", "o", "n", "e">> ELSE x

\* lines 791-792, 796-797, 801-802: the preferences of the three facets
LocationIds == <<<<"A", "Z">>, <<"U", "S", "-", "A", "Z">>, <<"A", "R", "I", "Z", "O", "N", "A">>>>
LocationNeedles == <<<<"a", "r", "i", "z", "o", "n", "a">>, <<"(", "a", "z", ")">>, <<" ", "a", "z", " ">>>>
TotalIds == <<<<"A", "L", "L">>, <<"T", "O", "T", "A", "L">>, <<"T", "O", "T">>>>
TotalNeedles == <<<<"a", "l", "l">>, <<"t", "o", "t", "a", "l">>>>

\* lines 789-793  location_id as it is tested at line 805
LocationId(vals) == choose_facet_id(vals, LocationIds, LocationNeedles)

\* lines 794-803, 810-814  sector_id and fuel_id as they are tested at line 816
FirstIfNone(vals) ==
    LET id == choose_facet_id(vals, TotalIds, TotalNeedles)
    IN  IF ~Falsy(id) THEN id
        ELSE IF vals # <<>> THEN Str(vals[1].id) ELSE None

\* lines 805-817  whether the try block goes on to the data request
Resolved(lv, sv, fv) ==
    /\ ~Falsy(LocationId(lv))
    /\ ~Falsy(FirstIfNone(sv))
    /\ ~Falsy(FirstIfNone(fv))

\* lines 819-830  gen_params
GenParams(col, lv, sv, fv) ==
    [frequency |-> "monthly", data |-> <<col>>,
     location |-> <<LocationId(lv)>>,
     sectorid |-> <<FirstIfNone(sv)>>,
     fueltypeid |-> <<FirstIfNone(fv)>>,
     start |-> "2021-01", end |-> "2022-01",
     sort_column |-> "period", sort_direction |-> "asc", length |-> 5000]

\* lines 833-839  the rows kept of the generation response
GenerationRows(res, col) ==
    [i \in 1..Len(res) |->
        [period |-> Get(res[i], "period", JsNull),
         generation |-> Get(res[i], col, JsNull)]]

\* the rows collected kept by the handler
OnGenerationFailureKeepRows(rs, units) == [rows |-> rs, units |-> ""]
\* lines 849-855  what the except clause leaves in generation_rows, gen_units
OnGenerationFailure(rs, units) == [rows |-> <<>>, units |-> ""]

\* What the service may answer.
FAz == [id |-> <<"A", "Z">>, name |-> None, alias |-> None]
FAll == [id |-> <<"A", "L", "L">>, name |-> None, alias |-> None]
FOther == [id |-> <<"b">>, name |-> None, alias |-> None]
FNoId == [id |-> None, name |-> <<"b">>, alias |-> None]
FNoIdAll == [id |-> None, name |-> <<"a", "l", "l">>, alias |-> None]
FacetLists ==
    {<<>>, <<FOther, FAz>>, <<FOther, FAll>>, <<FOther>>, <<FNoId, FAll>>,
     <<FNoId>>, <<FNoIdAll, FOther>>}
RetailResponses ==
    {<<>>, <<[period |-> <<1>>, sales |-> 200, revenue |-> 8, price |-> 4]>>}
GenResponses ==
    {<<>>, <<[period |-> <<1>>, value |-> 50]>>,
     <<[period |-> <<1>>, value |-> 50], [period |-> <<2>>, gen |-> 60]>>}
GenColumns == {"value", "gen"}
UnitTexts == {"", "MWh"}

InitMain ==
    /\ main_pc = "retail"
    /\ retail_res = <<>> /\ gen_col = ""
    /\ loc_vals = <<>> /\ sec_vals = <<>> /\ fuel_vals = <<>>
    /\ gen_reqs = <<>> /\ gen_res = <<>>
    /\ generation_rows = <<>> /\ gen_units = ""
    /\ failure = NoFailure
    /\ site = NotWritten

\* the exception leaves main: nothing after the failing line is run
Crash(stage) ==
    /\ main_pc' = "crashed"
    /\ failure' = [stage |-> stage]
    /\ UNCHANGED <<retail_res, gen_col, loc_vals, sec_vals, fuel_vals, gen_reqs,
                   gen_res, generation_rows, gen_units, site>>

\* the exception is caught at line 849: lines 850-855, then line 857
Caught(stage) ==
    /\ main_pc' = "combine"
    /\ failure' = [stage |-> stage]
    /\ generation_rows' = OnGenerationFailure(generation_rows, gen_units).rows
    /\ gen_units' = OnGenerationFailure(generation_rows, gen_units).units

\* line 770: retail = eia_data(...), line 771: infer_units(...)
RetailData ==
    /\ main_pc = "retail"
    /\ \/ /\ \E rs \in RetailResponses : retail_res' = rs
          /\ main_pc' = "pick"
          /\ UNCHANGED <<gen_col, loc_vals, sec_vals, fuel_vals, gen_reqs, gen_res,
                         generation_rows, gen_units, failure, site>>
       \/ \E stage \in {"retail_data", "retail_units"} : Crash(stage)
    /\ UNCHANGED notMainVars

\* line 775: gen_col = pick_generation_data_column(...), then 777-778
PickColumn ==
    /\ main_pc = "pick"
    /\ \/ /\ \E c \in GenColumns : gen_col' = c
          /\ main_pc' = "facets"
          /\ generation_rows' = <<>> /\ gen_units' = ""
          /\ UNCHANGED <<retail_res, loc_vals, sec_vals, fuel_vals, gen_reqs, gen_res,
                         failure, site>>
       \/ Crash("pick")
    /\ UNCHANGED notMainVars

\* lines 781-787: the three eia_facet calls and the facets of their payloads
DiscoverFacets ==
    /\ main_pc = "facets"
    /\ \/ /\ \E lv \in FacetLists, sv \in FacetLists, fv \in FacetLists :
                loc_vals' = lv /\ sec_vals' = sv /\ fuel_vals' = fv
          /\ main_pc' = "resolve"
          /\ UNCHANGED <<retail_res, gen_col, gen_reqs, gen_res, generation_rows,
                         gen_units, failure, site>>
       \/ /\ Caught("facet_discovery")
          /\ UNCHANGED <<retail_res, gen_col, loc_vals, sec_vals, fuel_vals, gen_reqs,
                         gen_res, site>>
    /\ UNCHANGED notMainVars

\* lines 789-830: the three choices, the tests of lines 805-817, gen_params;
\* line 832: the data request is issued
ResolveFacets ==
    /\ main_pc = "resolve"
    /\ IF Resolved(loc_vals, sec_vals, fuel_vals)
       THEN /\ gen_reqs' = Append(gen_reqs,
                                  GenParams(gen_col, loc_vals, sec_vals, fuel_vals))
            /\ main_pc' = "gen_data"
            /\ UNCHANGED <<generation_rows, gen_units, failure>>
       ELSE /\ Caught("facet_resolution")
            /\ UNCHANGED gen_reqs
    /\ UNCHANGED <<retail_res, gen_col, loc_vals, sec_vals, fuel_vals, gen_res, site>>
    /\ UNCHANGED notMainVars

\* lines 832-839: eia_data returns or raises; the rows are collected
GenData ==
    /\ main_pc = "gen_data"
    /\ \/ /\ \E res \in GenResponses :
                /\ gen_res' = res
                /\ generation_rows' = GenerationRows(res, gen_col)
          /\ main_pc' = "gen_units"
          /\ UNCHANGED <<gen_units, failure>>
       \/ /\ Caught("gen_data")
          /\ UNCHANGED gen_res
    /\ UNCHANGED <<retail_res, gen_col, loc_vals, sec_vals, fuel_vals, gen_reqs, site>>
    /\ UNCHANGED notMainVars

\* lines 841-847: infer_units returns or raises
GenUnits ==
    /\ main_pc = "gen_units"
    /\ \/ /\ \E u \in UnitTexts : gen_units' = u
          /\ main_pc' = "combine"
          /\ UNCHANGED <<generation_rows, failure>>
       \/ Caught("gen_units")
    /\ UNCHANGED <<retail_res, gen_col, loc_vals, sec_vals, fuel_vals, gen_reqs, gen_res,
                   site>>
    /\ UNCHANGED notMainVars

\* lines 857-880: combined is built and build_dashboard writes it
WriteSite ==
    /\ main_pc = "combine"
    /\ main_pc' = "done"
    /\ site' = [written |-> TRUE,
                retail_rows |-> retail_res,
                generation_column |-> gen_col,
                generation_units |-> gen_units,
                generation_rows |-> generation_rows]
    /\ UNCHANGED <<retail_res, gen_col, loc_vals, sec_vals, fuel_vals, gen_reqs, gen_res,
                   generation_rows, gen_units, failure>>
    /\ UNCHANGED notMainVars

(***************************************************************************)
(* The parts that take no step in a specification.                         *)
(***************************************************************************)
FetchOff ==
    /\ where = "" /\ retries = 0 /\ calls = 0 /\ pc = "off" /\ reqs = <<>> /\ attempt = 0
    /\ last_err = NoErr /\ kinds = {} /\ sleeps = <<>> /\ gets = 0
    /\ wire = NoWire /\ count_data = NoData /\ total = Unknown /\ page_idx = 0
    /\ data = NoData /\ features = <<>> /\ result = NoValue /\ raised = NoErr

FacetOff ==
    /\ facet_values = <<>> /\ prefer_ids = <<>> /\ prefer_name_contains = <<>>
    /\ fpc = "off" /\ chosen = None

MergeOff ==
    /\ retail_rows = <<>> /\ gen_rows = <<>> /\ merged = <<>> /\ mpc = "off"

DfOff ==
    /\ df_features = <<>> /\ raw_after = <<>> /\ df_rows = <<>> /\ columns = {}
    /\ crash_date = NoColumn /\ dfpc = "off"

PickOff ==
    /\ meta_keys = <<>> /\ picked = None /\ ppc = "off"

MainOff ==
    /\ main_pc = "off"
    /\ retail_res = <<>> /\ gen_col = ""
    /\ loc_vals = <<>> /\ sec_vals = <<>> /\ fuel_vals = <<>>
    /\ gen_reqs = <<>> /\ gen_res = <<>>
    /\ generation_rows = <<>> /\ gen_units = ""
    /\ failure = NoFailure
    /\ site = NotWritten

(***************************************************************************)
(* Specifications.                                                         *)
(***************************************************************************)
\* the calls of fetch_all_features
Init == InitFetch /\ FacetOff /\ MergeOff /\ DfOff /\ PickOff /\ MainOff

Next ==
    \/ Call
    \/ CallAgain
    \/ AttemptFails
    \/ Exhausted
    \/ CountReturns
    \/ PageReturns

Spec == Init /\ [][Next]_vars

\* The same, for the claims about termination: the process is never
\* suspended for good.  Every session.get ends (timeout=REQUEST_TIMEOUT),
\* every sleep is finite, and the code between them does not block.
SpecFair == Spec /\ WF_vars(Next)

\* one call of choose_facet_id
InitF == FetchOff /\ InitFacet /\ MergeOff /\ DfOff /\ PickOff /\ MainOff

NextF == Resolve

SpecFacet == InitF /\ [][NextF]_vars

\* one run of the merge by period
InitM == FetchOff /\ FacetOff /\ InitMerge /\ DfOff /\ PickOff /\ MainOff

NextM == Merge

SpecMerge == InitM /\ [][NextM]_vars

\* one call of features_to_df
InitD == FetchOff /\ FacetOff /\ MergeOff /\ InitDf /\ PickOff /\ MainOff

NextD == ToDf

SpecDf == InitD /\ [][NextD]_vars

\* one call of pick_generation_data_column
InitP == FetchOff /\ FacetOff /\ MergeOff /\ DfOff /\ InitPick /\ MainOff

NextP == Pick

SpecPick == InitP /\ [][NextP]_vars

\* one run of main of electric.py
InitE == FetchOff /\ FacetOff /\ MergeOff /\ DfOff /\ PickOff /\ InitMain

NextE ==
    \/ RetailData
    \/ PickColumn
    \/ DiscoverFacets
    \/ ResolveFacets
    \/ GenData
    \/ GenUnits
    \/ WriteSite

SpecMain == InitE /\ [][NextE]_vars


(***************************************************************************)
(* Properties of crash.py, checked under Spec.                             *)
(***************************************************************************)
IsPageRequest(p) == "resultOffset" \in DOMAIN p
IsCountRequest(p) == "returnCountOnly" \in DOMAIN p
PageRequests == SelectSeq(reqs, IsPageRequest)
CountRequests == SelectSeq(reqs, IsCountRequest)
Succeeded(w) == w.status = "ok" /\ "error" \notin DOMAIN w.body
ServiceError(w) == w.status = "ok" /\ "error" \in DOMAIN w.body

\* C1: whenever the count query reported total = 0, fetch_all_features has
\* returned the empty sequence and the only request it issued is the count
\* query: no page request.
C1_EmptyTotalNoPageRequest ==
    total = 0 =>
        /\ pc = "done"
        /\ result = <<>>
        /\ PageRequests = <<>>
        /\ Len(reqs) = 1 /\ IsCountRequest(reqs[1])

C1_Witness ==
    /\ pc = "done" /\ total = 0 /\ count_data = [count |-> 0]
    /\ attempt > 0

\* C2: the offsets of the page requests, in issue order, are 0, pageSize,
\* 2*pageSize, ... and, once the enumeration of a total > 0 has returned, their
\* number n is ceil(total / pageSize): (n-1)*pageSize < total <= n*pageSize.
C2_PageRequestsCoverTotal ==
    /\ \A i \in 1..Len(PageRequests) :
          PageRequests[i].resultOffset = (i - 1) * MAX_RECORD_COUNT
    /\ (pc = "done" /\ total > 0) =>
          /\ (Len(PageRequests) - 1) * MAX_RECORD_COUNT < total
          /\ total <= Len(PageRequests) * MAX_RECORD_COUNT

C2_Witness ==
    /\ pc = "done" /\ total = MAX_RECORD_COUNT + 1
    /\ Len(PageRequests) = 2 /\ PageRequests[2].resultOffset = MAX_RECORD_COUNT
    /\ attempt > 0

\* C3: a request that has met fewer than retries failures, all of them
\* transport failures, does not raise at its next step, and if the service
\* then answers with a successful response _request_json returns that
\* response to its caller.
C3_SuccessAfterFailuresReturns ==
    [][(pc \in {"count", "page"} /\ attempt < retries /\ kinds \subseteq TransportKinds)
        => /\ pc' /= "raised"
           /\ Succeeded(wire') =>
                IF pc = "count" THEN count_data' = wire'.body
                                ELSE data' = wire'.body]_vars

C3_Witness ==
    /\ pc = "done" /\ retries = DEFAULT_RETRIES /\ attempt = retries - 1
    /\ kinds /= {} /\ kinds \subseteq TransportKinds
    /\ Succeeded(wire) /\ data = wire.body /\ Len(sleeps) = attempt

\* C4: once the service has answered with an error payload, the request has
\* failed at once: the call raised, no sleep followed that answer, no further
\* attempt was made, and the failure carries the payload.
C4_ServiceErrorNotRetried ==
    last_err.kind = "service" =>
        /\ pc = "raised"
        /\ Len(sleeps) = last_err.at
        /\ gets = last_err.at + 1
        /\ raised.cause.info = wire.body.error

\* C5: no request makes more than retries attempts; a request whose every
\* attempt failed raises after exactly retries attempts, and what it raises
\* wraps the failure of the last attempt; and every call of
\* fetch_all_features ends.
C5_ExhaustionRaisesAfterRetries ==
    /\ [](gets <= retries)
    /\ [](pc = "raised" =>
            /\ gets = retries
            /\ raised.cause = last_err
            /\ last_err.at = retries - 1
            /\ last_err.kind = TryBody(wire).kind
            /\ raised.after = retries)
    /\ <>(pc \in {"done", "raised"})

C5_Witness ==
    /\ pc = "raised" /\ retries = DEFAULT_RETRIES /\ gets = DEFAULT_RETRIES
    /\ kinds \subseteq TransportKinds /\ Cardinality(kinds) > 1
    /\ raised.cause.kind \in TransportKinds

\* C6: the i-th sleep of a request (after failed attempt i-1) lasts
\* min(2^(i-1), 20) seconds: the sleeps never exceed 20 and never decrease.
C6_BackoffCappedNonDecreasing ==
    \A i \in 1..Len(sleeps) :
        /\ sleeps[i] = (IF 2 ^ (i - 1) < 20 THEN 2 ^ (i - 1) ELSE 20)
        /\ sleeps[i] <= 20
        /\ i > 1 => sleeps[i - 1] <= sleeps[i]

C6_Witness ==
    /\ Len(sleeps) > DEFAULT_RETRIES
    /\ sleeps[Len(sleeps)] = 20
    /\ sleeps[DEFAULT_RETRIES] = 16

\* C7: the first request is the count query, it asks for the count only
\* (returnCountOnly, no field or geometry of any row) under the caller's
\* filter; and when the answer reports count 0 or has no count field,
\* get_count returned 0 and nothing was raised.
C7_CountOnlyAndZeroDefault ==
    /\ reqs /= <<>> =>
          /\ DOMAIN reqs[1] = {"f", "where", "returnCountOnly"}
          /\ reqs[1].returnCountOnly = "true"
          /\ reqs[1].where = where
    /\ (count_data /= NoData /\ ("count" \notin DOMAIN count_data \/ count_data.count = 0)) =>
          /\ total = 0
          /\ pc /= "raised"

C7_Witness ==
    /\ count_data = <<>> /\ total = 0 /\ pc = "done" /\ raised = NoErr

(***************************************************************************)
(* Properties of choose_facet_id, checked under SpecFacet.                 *)
(***************************************************************************)
\* equality of two strings up to the case of their letters
SameNoCase(s, t) ==
    /\ Len(s) = Len(t)
    /\ \A i \in 1..Len(s) : LowerChar(s[i]) = LowerChar(t[i])

\* candidate i's identifier equals entry j of the exact preferences
ExactMatch(i, j) ==
    /\ facet_values[i].id /= None
    /\ SameNoCase(facet_values[i].id, prefer_ids[j])

\* the text of candidate i: its id, name and alias, in lower case
TextOf(i) ==
    LET f == facet_values[i]
        part(x) == IF x = None THEN <<>> ELSE x
        t == part(f.id) \o <<" ">> \o part(f.name) \o <<" ">> \o part(f.alias)
    IN  [k \in 1..Len(t) |-> LowerChar(t[k])]

\* entry j of the substring preferences occurs in candidate i's text
NeedleMatch(i, j) ==
    LET n == [k \in 1..Len(prefer_name_contains[j]) |->
                 LowerChar(prefer_name_contains[j][k])]
    IN  \E at \in 1..(Len(TextOf(i)) - Len(n) + 1) :
            \A k \in 1..Len(n) : TextOf(i)[at + k - 1] = n[k]

ExactCandidates ==
    {i \in 1..Len(facet_values) : \E j \in 1..Len(prefer_ids) : ExactMatch(i, j)}
NeedleCandidates ==
    {i \in 1..Len(facet_values) :
        \E j \in 1..Len(prefer_name_contains) : NeedleMatch(i, j)}
Least(S) == CHOOSE x \in S : \A y \in S : x <= y

\* C8: when some candidate's identifier equals an exact preference up to
\* case, choose_facet_id returns the identifier of such a candidate, whatever
\* the substring preferences match.
C8_ExactOutranksSubstring ==
    (fpc = "resolved" /\ ExactCandidates /= {}) =>
        \E i \in ExactCandidates : chosen = facet_values[i].id

C8_Witness ==
    /\ fpc = "resolved"
    /\ Len(facet_values) = 2
    /\ 1 \in NeedleCandidates /\ 1 \notin ExactCandidates
    /\ 2 \in ExactCandidates
    /\ facet_values[1].id /= None
    /\ ~SameNoCase(facet_values[1].id, facet_values[2].id)
    /\ chosen = facet_values[2].id

\* C9: when several candidates equal some exact preference, the identifier
\* returned is that of a candidate equal to the earliest entry of the
\* preference list that any candidate equals.
C9_ExactInPreferenceOrder ==
    (fpc = "resolved" /\ ExactCandidates /= {}) =>
        LET js == {j \in 1..Len(prefer_ids) :
                      \E i \in 1..Len(facet_values) : ExactMatch(i, j)}
        IN  SameNoCase(chosen, prefer_ids[Least(js)])

\* C10: when no candidate equals an exact preference, the first needle of
\* the substring preferences that occurs in any candidate's text wins, and
\* the first candidate holding that needle is returned.
C10_SubstringInPreferenceOrder ==
    (fpc = "resolved" /\ ExactCandidates = {} /\ NeedleCandidates /= {}) =>
        LET js == {j \in 1..Len(prefer_name_contains) :
                      \E i \in 1..Len(facet_values) : NeedleMatch(i, j)}
            is == {i \in 1..Len(facet_values) : NeedleMatch(i, Least(js))}
        IN  chosen = facet_values[Least(is)].id

\* C11: choose_facet_id returns None exactly when no candidate equals an
\* exact preference and no candidate's text holds a needle; and an identifier
\* it returns is the id of one of the candidates.
C11_NoneIffNoCandidateMatches ==
    fpc = "resolved" =>
        /\ (chosen = None) <=> (ExactCandidates = {} /\ NeedleCandidates = {})
        /\ chosen /= None =>
              \E i \in 1..Len(facet_values) : chosen = facet_values[i].id

\* entry j of the exact preferences and candidate i's identifier are equal
\* once both are stripped of their non-alphanumeric characters and lowercased
NormalizedMatch(i, j) ==
    /\ facet_values[i].id /= None
    /\ normalize_key(facet_values[i].id) = normalize_key(prefer_ids[j])

NormalizedCandidates ==
    {i \in 1..Len(facet_values) : \E j \in 1..Len(prefer_ids) : NormalizedMatch(i, j)}

\* C12: an identifier and an exact preference that differ only in case or in
\* non-alphanumeric characters match under the exact rule: when some
\* candidate equals an exact preference after normalization, the identifier
\* returned is that of such a candidate.
C12_ExactRuleNormalizes ==
    (fpc = "resolved" /\ NormalizedCandidates /= {}) =>
        \E i \in NormalizedCandidates : chosen = facet_values[i].id

(***************************************************************************)
(* Properties of the merge by period, checked under SpecMerge.             *)
(***************************************************************************)
RetailKeys == {retail_rows[i].period : i \in 1..Len(retail_rows)}
GenKeys == {gen_rows[i].period : i \in 1..Len(gen_rows)}
MergedKeys == {merged[i].period : i \in 1..Len(merged)}
RowFields == {"period", "sales", "revenue", "price", "generation"}
\* the last row of series s that has period k
LastOf(s, k) ==
    s[CHOOSE i \in 1..Len(s) :
        /\ s[i].period = k
        /\ \A j \in (i + 1)..Len(s) : s[j].period /= k]
\* a value as the merged row holds it: null when the row had none
OrNull(x) == IF x = JsUndefined THEN JsNull ELSE x

\* C13: when the two series share no period, the merge has exactly one row
\* per period of either series, every row has all five fields, none of them
\* absent, and the fields of the series that has no row of that period are
\* null.
C13_DisjointMergeNullFills ==
    (mpc = "merged" /\ RetailKeys \cap GenKeys = {}) =>
        /\ Len(merged) = Cardinality(RetailKeys \cup GenKeys)
        /\ MergedKeys = RetailKeys \cup GenKeys
        /\ \A i \in 1..Len(merged) :
              /\ DOMAIN merged[i] = RowFields
              /\ \A f \in RowFields \ {"period"} : merged[i][f] /= JsUndefined
              /\ merged[i].period \in GenKeys =>
                    /\ merged[i].sales = JsNull
                    /\ merged[i].revenue = JsNull
                    /\ merged[i].price = JsNull
              /\ merged[i].period \in RetailKeys => merged[i].generation = JsNull

C13_Witness ==
    /\ mpc = "merged"
    /\ RetailKeys /= {} /\ GenKeys /= {} /\ RetailKeys \cap GenKeys = {}
    /\ Len(merged) = 3
    /\ \E i \in 1..Len(merged) : merged[i].generation = 50 /\ merged[i].sales = JsNull
    /\ \E i \in 1..Len(merged) : merged[i].sales = 200 /\ merged[i].generation = JsNull

\* C14: the merged rows are in strictly ascending order of their periods,
\* whatever the two series hold, so that no period has two rows.
C14_MergedStrictlyAscending ==
    mpc = "merged" =>
        \A i, j \in 1..Len(merged) :
            i < j => LexLess(merged[i].period, merged[j].period)

C14_Witness ==
    /\ mpc = "merged"
    /\ Len(retail_rows) = 2 /\ Len(gen_rows) = 2
    /\ retail_rows[1].period = <<2>> /\ retail_rows[2].period = <<2>>
    /\ gen_rows[1].period = <<2>> /\ gen_rows[2].period = <<1, 0>>
    /\ Len(merged) = 2
    /\ merged[1].period = <<1, 0>> /\ merged[2].period = <<2>>

\* C15: every period of either series has a merged row, and the row of a
\* period both series have holds the sales, revenue and price of the retail
\* row of that period (the last one, when several have it) together with the
\* generation of the generation row of that period (the last one).
C15_NoRowDroppedFieldsKept ==
    mpc = "merged" =>
        /\ RetailKeys \cup GenKeys \subseteq MergedKeys
        /\ \A i \in 1..Len(merged) :
              LET k == merged[i].period IN
              (k \in RetailKeys /\ k \in GenKeys) =>
                  /\ merged[i].sales = OrNull(LastOf(retail_rows, k).sales)
                  /\ merged[i].revenue = OrNull(LastOf(retail_rows, k).revenue)
                  /\ merged[i].price = OrNull(LastOf(retail_rows, k).price)
                  /\ merged[i].generation = OrNull(LastOf(gen_rows, k).generation)

C15_Witness ==
    /\ mpc = "merged"
    /\ Len(merged) = 2
    /\ \E i \in 1..Len(merged) :
          /\ merged[i].period \in RetailKeys \cap GenKeys
          /\ merged[i].sales = 200 /\ merged[i].revenue = 8 /\ merged[i].price = 4
          /\ merged[i].generation = 50
    /\ \E i \in 1..Len(merged) : merged[i].period \notin GenKeys

\* ---------------------------------------------------------------------------
\* fetch_all_features: what one call returns
\* ---------------------------------------------------------------------------

RECURSIVE RecordCount(_)
\* number of rows in a list of page chunks: len(all_features)
RecordCount(chunks) ==
    IF chunks = <<>> THEN 0 ELSE chunks[1].n + RecordCount(Tail(chunks))

RECURSIVE Discrepancy(_, _)
\* rows the pages carried beyond (or, negative, short of) what the snapshot
\* tot leaves at their offsets
Discrepancy(chunks, tot) ==
    IF chunks = <<>> THEN 0
    ELSE (chunks[1].n - Expected(tot, chunks[1].offset))
         + Discrepancy(Tail(chunks), tot)

\* the rows of the page a successful page response carries (none when the
\* response has no features field)
RowsOf(w) == IF "features" \in DOMAIN w.body THEN w.body.features ELSE 0

C17_PageFailureEndsCall ==
    /\ [][(pc = "page" /\ ~InLoop(attempt, retries)) =>
            /\ pc' = "raised"
            /\ raised'.kind = "RuntimeError" /\ raised'.cause = last_err
            /\ result' = NoValue
            /\ reqs' = reqs]_vars
    /\ [][(pc = "raised" /\ calls' = calls) =>
            /\ pc' = "raised" /\ result' = NoValue /\ reqs' = reqs]_vars
    /\ [](pc = "raised" => result = NoValue)

C17_Witness ==
    /\ pc = "raised" /\ result = NoValue
    /\ total = 2 * MAX_RECORD_COUNT + 1
    /\ page_idx = 1
    /\ Len(features) = 1 /\ features[1].n = MAX_RECORD_COUNT
    /\ Len(PageRequests) = 2

\* C18: a successful page response with fewer rows than the page size, or
\* with no features field, does not end the call: its rows (none without the
\* field) are appended to those of the pages before, the next page index is
\* requested while it is below ceil(total / pageSize), and after the last
\* one the call returns the concatenation in page order.
C18_ShortPageDoesNotStop ==
    [][(pc = "page" /\ InLoop(attempt, retries) /\ wire' # wire
            /\ Succeeded(wire')) =>
        /\ features' = Append(features,
                              [offset |-> page_idx * MAX_RECORD_COUNT,
                               n |-> RowsOf(wire')])
        /\ IF (page_idx + 1) * MAX_RECORD_COUNT < total
           THEN /\ pc' = "page" /\ page_idx' = page_idx + 1
                /\ reqs' = Append(reqs,
                       PageParams(where, (page_idx + 1) * MAX_RECORD_COUNT))
                /\ result' = NoValue
           ELSE /\ pc' = "done" /\ result' = features' /\ reqs' = reqs]_vars

C18_Witness ==
    /\ pc = "done" /\ total = 2 * MAX_RECORD_COUNT + 1
    /\ Len(result) = 3
    /\ result[1].n = 0 /\ result[2].n = MAX_RECORD_COUNT /\ result[3].n = 0
    /\ "features" \notin DOMAIN data
    /\ Len(PageRequests) = 3

\* C19: every call issues the count query once, as its first request, and
\* all its later requests are page requests; the total it read does not
\* change while it pages; and a later call starts from no total and issues
\* the count query again.
C19_CountOncePerCall ==
    /\ [](pc \in {"count", "page", "done", "raised"} =>
            /\ Len(reqs) >= 1
            /\ reqs[1] = CountParams(where)
            /\ Len(CountRequests) = 1
            /\ \A i \in 2..Len(reqs) : IsPageRequest(reqs[i])
            /\ (pc = "count" <=> total = Unknown) \/ pc = "raised")
    /\ [][(pc = "page" /\ calls' = calls) => total' = total]_vars
    /\ [][(calls' # calls) =>
            /\ pc' = "count" /\ total' = Unknown
            /\ reqs' = <<CountParams(where)>>]_vars

C19_Witness ==
    /\ calls = 2 /\ pc = "done"
    /\ total = MAX_RECORD_COUNT + 1
    /\ Len(reqs) = 3 /\ Len(CountRequests) = 1 /\ Len(PageRequests) = 2

\* C20: every page request of a call carries the filter of the call, the
\* page size as resultRecordCount and OBJECTID as orderByFields, and two
\* page requests of a call differ in resultOffset and in nothing else.
C20_PageRequestsDifferInOffsetOnly ==
    /\ \A i \in 1..Len(PageRequests) :
          LET p == PageRequests[i] IN
          /\ p.where = where
          /\ p.resultRecordCount = MAX_RECORD_COUNT
          /\ "orderByFields" \in DOMAIN p
          /\ p["orderByFields"] = "OBJECTID"
    /\ \A i, j \in 1..Len(PageRequests) :
          LET p == PageRequests[i]
              q == PageRequests[j] IN
          /\ DOMAIN p = DOMAIN q
          /\ \A k \in DOMAIN p \ {"resultOffset"} : p[k] = q[k]
          /\ (i # j) => p.resultOffset # q.resultOffset

C20_Witness ==
    /\ Len(PageRequests) = 3
    /\ PageRequests[1].resultOffset = 0
    /\ PageRequests[3].resultOffset = 2 * MAX_RECORD_COUNT
    /\ PageRequests[3].orderByFields = "OBJECTID"
    /\ PageRequests[3].where = where

\* a step in which _request_json returns to its caller
RequestReturns ==
    /\ pc \in {"count", "page"}
    /\ pc' \in {"page", "done"}
    /\ pc' # pc \/ reqs' # reqs

\* C25: while a request is in progress it has slept once after each of its
\* failed attempts and after no other; when all its attempts have failed the
\* sleeps are as many as the attempts, the failure is raised after the last
\* of them and no request or sleep comes with or after the raise; the
\* attempt that succeeds is followed by no sleep.
C25_SleepAfterEveryFailure ==
    /\ [](pc \in {"count", "page", "raised"} =>
            /\ Len(sleeps) = attempt
            /\ gets = attempt)
    /\ [](pc = "raised" => Len(sleeps) = retries /\ gets = retries)
    /\ [][(pc \in {"count", "page"} /\ pc' = "raised") =>
            /\ Len(sleeps) = retries
            /\ sleeps' = sleeps /\ gets' = gets /\ reqs' = reqs]_vars
    /\ [][(pc = "raised" /\ calls' = calls) =>
            sleeps' = sleeps /\ gets' = gets]_vars
    /\ [][RequestReturns =>
            /\ Succeeded(wire')
            /\ (pc' = "done" => sleeps' = sleeps /\ gets' = gets + 1)
            /\ (pc' = "page" => sleeps' = <<>> /\ gets' = 0)]_vars

C25_Witness ==
    /\ pc = "raised" /\ retries = DEFAULT_RETRIES
    /\ Len(sleeps) = DEFAULT_RETRIES /\ gets = DEFAULT_RETRIES
    /\ sleeps[DEFAULT_RETRIES] = Backoff(DEFAULT_RETRIES - 1)
    /\ raised.cause.at = DEFAULT_RETRIES - 1

(***************************************************************************)
(* Properties of features_to_df, checked under SpecDf.                     *)
(***************************************************************************)
\* the nested attributes and the geometry of a raw item, empty when the
\* item has none
AttrsOf(f) ==
    IF "attributes" \in DOMAIN f /\ f["attributes"] # DictNone
    THEN f["attributes"] ELSE EmptyDict
GeomOf(f) ==
    IF "geometry" \in DOMAIN f /\ f["geometry"] # DictNone
    THEN f["geometry"] ELSE EmptyDict
HasXY(f) == {"x", "y"} \subseteq DOMAIN GeomOf(f)

YearOf(i) == Cell(df_rows, i, "YEAR")
MonthOf(i) == Cell(df_rows, i, "MONTH")
DayOf(i) == Cell(df_rows, i, "DAY")

\* C22: when YEAR, MONTH and DAY are all fields of the page, the frame has
\* a date column whose value, for each record, is the date of its three
\* components when they form a valid calendar date and null when they do
\* not (or one is missing); when one of the three fields is absent from the
\* page, the frame has no date column.
C22_DateNullWhenInvalid ==
    dfpc = "returned" =>
        IF \A c \in {"YEAR", "MONTH", "DAY"} :
              \E i \in 1..Len(df_rows) : c \in DOMAIN df_rows[i]
        THEN /\ "crash_date" \in columns
             /\ Len(crash_date) = Len(df_rows)
             /\ \A i \in 1..Len(df_rows) :
                   crash_date[i] =
                       (IF NaN \notin {YearOf(i), MonthOf(i), DayOf(i)}
                           /\ ValidDate(YearOf(i), MonthOf(i), DayOf(i))
                        THEN YearOf(i) * 10000 + MonthOf(i) * 100 + DayOf(i)
                        ELSE NaT)
        ELSE "crash_date" \notin columns /\ crash_date = NoColumn

(***************************************************************************)
(* Properties of pick_generation_data_column, checked under SpecPick.      *)
(***************************************************************************)
\* the keys as facet values: each key the id of a candidate with no name
\* and no alias
AsFacetValues(keys) ==
    [i \in 1..Len(keys) |-> [id |-> keys[i], name |-> None, alias |-> None]]

\* what choose_facet_id returns for the keys, with preferred as its exact
\* and as its substring preferences
FacetChoice == choose_facet_id(AsFacetValues(meta_keys), preferred, preferred)

\* C24: for the same candidate identifiers and the same preference list,
\* pick_generation_data_column returns what choose_facet_id returns when
\* that is an identifier, and reports no match when choose_facet_id
\* returns none.
C24_PickAgreesWithChooseFacet ==
    ppc = "picked" =>
        /\ FacetChoice # None => picked = FacetChoice
        /\ FacetChoice = None => picked = None

(***************************************************************************)
(* Properties of main of electric.py, checked under SpecMain.              *)
(***************************************************************************)
\* the facets are known and the choices have been made
FacetsResolved == main_pc \in {"gen_data", "gen_units", "combine", "done"}
                     /\ failure.stage # "facet_discovery"
\* what choose_facet_id returned for the sector and the fuel facet
SectorChoice == choose_facet_id(sec_vals, TotalIds, TotalNeedles)
FuelChoice == choose_facet_id(fuel_vals, TotalIds, TotalNeedles)
\* the ids the candidates of a list have
IdsOf(vals) == {vals[i].id : i \in 1..Len(vals)} \ {None}

\* C23: when choose_facet_id returns none for the location facet the
\* generation fetch is aborted and no data request is issued; when it
\* returns none for the sector or the fuel facet and the facet has
\* candidates, the data request that is issued carries the id of the first
\* candidate for that facet; and every facet value a data request carries
\* is resolved, the id of a candidate of its facet, never none.
C23_ResolutionFailurePerFilter ==
    FacetsResolved =>
        /\ LocationId(loc_vals) = None =>
              gen_reqs = <<>> /\ failure.stage = "facet_resolution"
        /\ \A i \in 1..Len(gen_reqs) :
              /\ (SectorChoice = None /\ sec_vals # <<>>) =>
                    gen_reqs[i].sectorid = <<sec_vals[1].id>>
              /\ (FuelChoice = None /\ fuel_vals # <<>>) =>
                    gen_reqs[i].fueltypeid = <<fuel_vals[1].id>>
              /\ gen_reqs[i].location[1] \in IdsOf(loc_vals)
              /\ gen_reqs[i].sectorid[1] \in IdsOf(sec_vals)
              /\ gen_reqs[i].fueltypeid[1] \in IdsOf(fuel_vals)

\* the stages of the generation phase
GenerationStages == {"facet_discovery", "facet_resolution", "gen_data", "gen_units"}

\* C26: a failure in the generation phase (facet discovery, facet
\* resolution, the data request, the units lookup) is caught: it leaves the
\* generation rows and units empty, whatever had been collected, the run
\* goes on to write the dashboard, and what is written has the retail rows
\* as fetched and no generation rows; a failure of the retail data request
\* ends the run with nothing written, then or later.
C26_GenerationFailureContained ==
    /\ [][(failure = NoFailure /\ failure' # NoFailure
             /\ failure'.stage \in GenerationStages) =>
            /\ main_pc' = "combine"
            /\ generation_rows' = <<>> /\ gen_units' = ""
            /\ retail_res' = retail_res]_vars
    /\ [][(main_pc = "combine") =>
            /\ main_pc' = "done"
            /\ site'.written
            /\ site'.retail_rows = retail_res
            /\ site'.generation_rows = generation_rows
            /\ site'.generation_units = gen_units]_vars
    /\ []((main_pc = "done" /\ failure.stage \in GenerationStages) =>
            /\ site.written
            /\ site.retail_rows = retail_res
            /\ site.generation_rows = <<>> /\ site.generation_units = "")
    /\ [](failure.stage \in {"retail_data", "retail_units", "pick"} =>
            main_pc = "crashed" /\ site = NotWritten)
    /\ [][main_pc = "crashed" => main_pc' = "crashed" /\ site' = NotWritten]_vars

C26_Witness ==
    /\ main_pc = "done" /\ failure.stage = "gen_units"
    /\ Len(gen_reqs) = 1 /\ Len(gen_res) = 2
    /\ generation_rows = <<>> /\ gen_units = ""
    /\ site.written /\ site.generation_rows = <<>>
    /\ Len(site.retail_rows) = 1

=============================================================================
